---------------------------- MODULE Spec2Model ----------------------------
(***************************************************************************)
(* Model of controle_despesas (src/app.py): a Streamlit script that        *)
(* records expenses in a Google spreadsheet and lists, filters, deletes    *)
(* and charts them.                                                        *)
(*                                                                         *)
(* Texts are sequences of one-character strings.  A Python float is kept   *)
(* as an exact decimal [k, m, e] = m * 10^(-e), normalised so that equal   *)
(* numbers are equal records: the texts of the model have at most 15       *)
(* significant digits, for which distinct decimals are distinct doubles.   *)
(***************************************************************************)
EXTENDS Integers, Sequences, FiniteSets, TLC

VARIABLES
    pc,      \* position of the running script / of the function under check
    val,     \* SpecParse: the argument handed to parse_value
    ret,     \* SpecParse: what parse_value returned (or the exception raised)
    ret2,    \* SpecParse: parse_value applied again to the numeric result
    sheet,   \* the data rows of the spreadsheet, below its header row
    cache,   \* st.cache_data's entry for load_data()
    trigger, \* what caused the current run of the script
    df,      \* the table the last load_data() call returned
    form,    \* the form's widget values at the last submission
    errors,  \* what validate_inputs returned at the last submission
    outcome, \* what the current run did to the spreadsheet
    before,  \* the data rows before the current run touched them
    target   \* the unfiltered position of the row shown as selected

parseVars == <<val, ret, ret2>>
appVars == <<sheet, cache, trigger, df, form, errors, outcome, before, target>>
vars == <<pc, val, ret, ret2, sheet, cache, trigger, df, form, errors,
          outcome, before, target>>

-----------------------------------------------------------------------------
(* Bounds of the model *)

\* longest text handed to parse_value
MaxLen == 5
\* largest magnitude of the mantissa of a numeric cell
MaxNum == 3
\* most fraction digits of a numeric (float) cell
MaxFrac == 1
\* most data rows the spreadsheet holds
MaxRows == 3
\* longest amount text typed into the form under SpecEntry
MaxValorLen == 4
\* longest category text typed into the form under SpecEntry
MaxTipoLen == 2

-----------------------------------------------------------------------------
(* Python values *)

Digit == {"0", "1", "2", "3", "4", "5", "6", "7", "8", "9"}
Whitespace == {" "}

DigitVal(c) ==
    CASE c = "0" -> 0 [] c = "1" -> 1 [] c = "2" -> 2 [] c = "3" -> 3
      [] c = "4" -> 4 [] c = "5" -> 5 [] c = "6" -> 6 [] c = "7" -> 7
      [] c = "8" -> 8 [] c = "9" -> 9

RECURSIVE Norm(_, _)
\* the decimal m * 10^(-e) with its trailing fraction zeros dropped
Norm(m, e) ==
    IF e > 0 /\ m % 10 = 0 THEN Norm(m \div 10, e - 1)
    ELSE [k |-> "fin", m |-> m, e |-> e]

Fin(m, e) == Norm(m, e)
Zero == Fin(0, 0)
NaN == [k |-> "nan", m |-> 0, e |-> 0]
PosInf == [k |-> "inf", m |-> 1, e |-> 0]
NegInf == [k |-> "inf", m |-> -1, e |-> 0]
\* a Python int beyond the range of a double (abs > sys.float_info.max)
HugeInt == [k |-> "huge", m |-> 1, e |-> 0]
NegHugeInt == [k |-> "huge", m |-> -1, e |-> 0]
ValueError == [k |-> "ValueError", m |-> 0, e |-> 0]
OverflowError == [k |-> "OverflowError", m |-> 0, e |-> 0]

IsException(v) == v.k \in {"ValueError", "OverflowError"}

\* a Python object: a str, an int or a float
StrObj(s) == [ty |-> "str", s |-> s, v |-> Zero]
IntObj(v) == [ty |-> "int", s |-> <<>>, v |-> v]
FloatObj(v) == [ty |-> "float", s |-> <<>>, v |-> v]

-----------------------------------------------------------------------------
(* str methods and re.sub *)

RECURSIVE LStrip(_)
LStrip(s) == IF s /= <<>> /\ Head(s) \in Whitespace THEN LStrip(Tail(s)) ELSE s

RECURSIVE RStrip(_)
RStrip(s) ==
    IF s /= <<>> /\ s[Len(s)] \in Whitespace
    THEN RStrip(SubSeq(s, 1, Len(s) - 1)) ELSE s

\* str.strip()
Strip(s) == RStrip(LStrip(s))

Contains(s, c) == \E i \in 1..Len(s) : s[i] = c

RECURSIVE Replace(_, _, _)
\* str.replace(c, r): every occurrence of the character c becomes the text r
Replace(s, c, r) ==
    IF s = <<>> THEN <<>>
    ELSE (IF Head(s) = c THEN r ELSE <<Head(s)>>) \o Replace(Tail(s), c, r)

RECURSIVE Split(_, _)
\* str.split(c)
Split(s, c) ==
    IF ~Contains(s, c) THEN <<s>>
    ELSE LET i == CHOOSE i \in 1..Len(s) :
                      s[i] = c /\ \A j \in 1..(i - 1) : s[j] /= c
         IN <<SubSeq(s, 1, i - 1)>> \o Split(SubSeq(s, i + 1, Len(s)), c)

\* the character class with the minus sign left in it
KeptByRegex_KeepsSign(c) == c \in Digit \cup {".", ",", "-"}

KeptByRegex(c) == c \in Digit \cup {".", ","}

\* re.sub(r'[^\d.,]', '', s)
ReSub(s) == SelectSeq(s, KeptByRegex)

-----------------------------------------------------------------------------
(* float(str), int(str), float(number) *)

IsDigit(c) == c \in Digit

RECURSIVE DigitsToInt(_)
DigitsToInt(ds) ==
    IF ds = <<>> THEN 0
    ELSE 10 * DigitsToInt(SubSeq(ds, 1, Len(ds) - 1)) + DigitVal(ds[Len(ds)])

\* digits with at most one period and at least one digit
IsDecimalLiteral(b) ==
    /\ \A i \in 1..Len(b) : b[i] \in Digit \cup {"."}
    /\ Cardinality({i \in 1..Len(b) : b[i] = "."}) <= 1
    /\ \E i \in 1..Len(b) : b[i] \in Digit

FractionDigits(b) ==
    IF Contains(b, ".")
    THEN Len(b) - (CHOOSE i \in 1..Len(b) : b[i] = ".")
    ELSE 0

\* float(s) for a str s: the value, or ValueError.  The texts of the model
\* hold no exponent marker and no underscore.
PyFloat(s) ==
    LET t == Strip(s)
        signed == t /= <<>> /\ t[1] \in {"-", "+"}
        neg == signed /\ t[1] = "-"
        b == IF signed THEN Tail(t) ELSE t
    IN IF b = <<"n", "a", "n">> THEN NaN
       ELSE IF b = <<"i", "n", "f">>
                 \/ b = <<"i", "n", "f", "i", "n", "i", "t", "y">>
            THEN (IF neg THEN NegInf ELSE PosInf)
       ELSE IF IsDecimalLiteral(b)
            THEN Fin((IF neg THEN -1 ELSE 1) * DigitsToInt(SelectSeq(b, IsDigit)),
                     FractionDigits(b))
       ELSE ValueError

\* int(s) for a str s: the value, or ValueError
PyInt(s) ==
    LET t == Strip(s)
        signed == t /= <<>> /\ t[1] \in {"-", "+"}
        neg == signed /\ t[1] = "-"
        b == IF signed THEN Tail(t) ELSE t
    IN IF b /= <<>> /\ \A i \in 1..Len(b) : b[i] \in Digit
       THEN Fin((IF neg THEN -1 ELSE 1) * DigitsToInt(b), 0)
       ELSE ValueError

\* int(n) in the place of float(n): the fraction is cut off
FloatOfNumber_Truncates(v) ==
    IF v.k = "fin" /\ v.e > 0 THEN Fin(0, 0) ELSE v

\* float(n) for an int or float n: an int beyond the doubles raises
FloatOfNumber(v) == IF v.k = "huge" THEN OverflowError ELSE v

-----------------------------------------------------------------------------
(* parse_value *)

\* the two replace calls of the first branch in the other order
NormalizeSeparators_Swapped(s) ==
    IF Contains(s, ",") /\ Contains(s, ".")
    THEN Replace(Replace(s, ",", <<".">>), ".", <<>>)
    ELSE IF Contains(s, ",")
    THEN LET parts == Split(s, ",")
         IN IF Len(parts) > 1 /\ Len(parts[Len(parts)]) = 2
            THEN Replace(s, ",", <<".">>)
            ELSE Replace(s, ",", <<>>)
    ELSE s

\* the separator branches of parse_value
NormalizeSeparators(s) ==
    IF Contains(s, ",") /\ Contains(s, ".")
    THEN Replace(Replace(s, ".", <<>>), ",", <<".">>)
    ELSE IF Contains(s, ",")
    THEN LET parts == Split(s, ",")
         IN IF Len(parts) > 1 /\ Len(parts[Len(parts)]) = 2
            THEN Replace(s, ",", <<".">>)
            ELSE Replace(s, ",", <<>>)
    ELSE s

\* float(val_str), 0.0 on ValueError
FloatOrZero(s) == LET r == PyFloat(s) IN IF r = ValueError THEN Zero ELSE r

\* parse_value(val): the float returned, or the exception that escapes
parse_value(v) ==
    IF v.ty \in {"int", "float"} THEN FloatOfNumber(v.v)
    ELSE FloatOrZero(NormalizeSeparators(ReSub(Strip(v.s))))

-----------------------------------------------------------------------------
(* Dates and their two text forms *)

Date(y, m, d) == [y |-> y, m |-> m, d |-> d]
\* date.today(), fixed for the run
Today == Date(2024, 2, 1)
Yesterday == Date(2024, 1, 31)
Tomorrow == Date(2024, 2, 2)
\* pandas' NaT
NaT == Date(0, 0, 0)

\* a > b on dates
DateAfter(a, b) ==
    \/ a.y > b.y
    \/ a.y = b.y /\ a.m > b.m
    \/ a.y = b.y /\ a.m = b.m /\ a.d > b.d

DigitChar(n) ==
    CASE n = 0 -> "0" [] n = 1 -> "1" [] n = 2 -> "2" [] n = 3 -> "3"
      [] n = 4 -> "4" [] n = 5 -> "5" [] n = 6 -> "6" [] n = 7 -> "7"
      [] n = 8 -> "8" [] n = 9 -> "9"

Pad2(n) == <<DigitChar((n \div 10) % 10), DigitChar(n % 10)>>
Pad4(n) == Pad2(n \div 100) \o Pad2(n % 100)

\* data.strftime("%Y-%m-%d")
StrftimeISO(d) == Pad4(d.y) \o <<"-">> \o Pad2(d.m) \o <<"-">> \o Pad2(d.d)

\* pd.to_datetime(text, errors="coerce") on a cell of the Data column
ToDatetime(s) ==
    IF /\ Len(s) = 10
       /\ s[5] = "-" /\ s[8] = "-"
       /\ \A i \in {1, 2, 3, 4, 6, 7, 9, 10} : s[i] \in Digit
    THEN Date(DigitsToInt(SubSeq(s, 1, 4)), DigitsToInt(SubSeq(s, 6, 7)),
              DigitsToInt(SubSeq(s, 9, 10)))
    ELSE NaT

\* .dt.strftime("%d/%m/%Y")
StrftimeBR(d) ==
    IF d = NaT THEN <<"N", "a", "N">>
    ELSE Pad2(d.d) \o <<"/">> \o Pad2(d.m) \o <<"/">> \o Pad4(d.y)

-----------------------------------------------------------------------------
(* validate_inputs *)

FutureDate == "Data nao pode ser futura"
EmptyTipo == "Tipo nao pode estar vazio"
NotPositive == "Valor deve ser positivo"
NotNumber == "Valor deve ser um numero"

\* valor_float <= 0 on a float: false for nan
LessEqZero(v) == (v.k = "fin" /\ v.m <= 0) \/ v = NegInf

\* the try block of validate_inputs
AmountErrors(valor) ==
    LET valor_float == PyFloat(Replace(valor, ",", <<".">>))
    IN IF valor_float = ValueError THEN <<NotNumber>>
       ELSE IF LessEqZero(valor_float) THEN <<NotPositive>>
       ELSE <<>>

validate_inputs(data, tipo, valor) ==
    (IF DateAfter(data, Today) THEN <<FutureDate>> ELSE <<>>)
    \o (IF Strip(tipo) = <<>> THEN <<EmptyTipo>> ELSE <<>>)
    \o AmountErrors(valor)

-----------------------------------------------------------------------------
(* The spreadsheet and load_data *)

\* the row appended with the category left untrimmed
AppendedRow_Untrimmed(data, tipo, valor) ==
    [Data |-> StrftimeISO(data), Tipo |-> tipo,
     Valor |-> Replace(Replace(valor, ".", <<>>), ",", <<".">>)]

\* the list handed to sheet.append_row
AppendedRow(data, tipo, valor) ==
    [Data |-> StrftimeISO(data), Tipo |-> Strip(tipo),
     Valor |-> Replace(Replace(valor, ".", <<>>), ",", <<".">>)]

\* gspread's numericise of a cell read by get_all_records
Numericise(s) ==
    IF Contains(s, "_") THEN StrObj(s)
    ELSE IF PyInt(s) /= ValueError THEN IntObj(PyInt(s))
    ELSE IF PyFloat(s) /= ValueError THEN FloatObj(PyFloat(s))
    ELSE StrObj(s)

\* one row of the DataFrame load_data builds.  The Data and Tipo texts of
\* the model are no numeric literals, so numericise leaves them as they are.
DfRow(r) ==
    [Data |-> StrftimeBR(ToDatetime(r.Data)), Tipo |-> r.Tipo,
     Valor |-> parse_value(Numericise(r.Valor))]

\* the body of load_data: the table, or the empty DataFrame of the except
\* branch when get_all_records (ok = FALSE) or parse_value raises
LoadDataBody(rows, ok) ==
    IF ~ok \/ \E i \in 1..Len(rows) : IsException(DfRow(rows[i]).Valor)
    THEN <<>>
    ELSE [i \in 1..Len(rows) |-> DfRow(rows[i])]

\* sheet.delete_rows(n) seen from the data rows: sheet row n is data row n - 1
DeleteRows(rows, n) ==
    IF n - 1 \in 1..Len(rows)
    THEN SubSeq(rows, 1, n - 2) \o SubSeq(rows, n, Len(rows))
    ELSE rows

NoForm == [data |-> NaT, tipo |-> <<>>, valor |-> <<>>]

-----------------------------------------------------------------------------
(* SpecParse: parse_value applied to one cell value, then to its result *)

ParseChars == {"0", "5", ".", ",", "-", " ", "R"}
TextsUpTo(chars, n) == UNION {[1..l -> chars] : l \in 0..n}

NumericCells ==
    {IntObj(Fin(m, 0)) : m \in -MaxNum..MaxNum}
    \cup {IntObj(HugeInt), IntObj(NegHugeInt)}
    \cup {FloatObj(Fin(m, e)) : m \in -MaxNum..MaxNum, e \in 0..MaxFrac}
    \cup {FloatObj(NaN), FloatObj(PosInf), FloatObj(NegInf)}

CellValues == {StrObj(s) : s \in TextsUpTo(ParseChars, MaxLen)} \cup NumericCells

InitParse ==
    /\ pc = "call"
    /\ val \in CellValues
    /\ ret = Zero
    /\ ret2 = Zero
    /\ sheet = <<>>
    /\ cache = [has |-> FALSE, df |-> <<>>]
    /\ trigger = "view"
    /\ df = <<>>
    /\ form = NoForm
    /\ errors = <<>>
    /\ outcome = "none"
    /\ before = <<>>
    /\ target = -1

\* df["Valor"].apply(parse_value) on one cell
ApplyParse ==
    /\ pc = "call"
    /\ ret' = parse_value(val)
    /\ pc' = "returned"
    /\ UNCHANGED <<val, ret2>>
    /\ UNCHANGED appVars

\* the numeric result handed to parse_value again
Reapply ==
    /\ pc = "returned"
    /\ ~IsException(ret)
    /\ ret2' = parse_value(FloatObj(ret))
    /\ pc' = "reapplied"
    /\ UNCHANGED <<val, ret>>
    /\ UNCHANGED appVars

NextParse == ApplyParse \/ Reapply

SpecParse == InitParse /\ [][NextParse]_vars

-----------------------------------------------------------------------------
(* Spec: the script, run once per interaction, top to bottom *)

FormDates == {Yesterday, Today, Tomorrow}
FormTipos == {<<"a">>, <<" ", "b">>, <<" ">>}
FormValores == {<<"2", ",", "5">>, <<"x">>}

\* df["Tipo"].unique() and df["Data"].unique(): the options of the filters
Tipos(d) == {d[i].Tipo : i \in 1..Len(d)}
Datas(d) == {d[i].Data : i \in 1..Len(d)}

\* df_filtrado: the rows that pass the filters, each under its label in df
\* (an empty selection does not filter)
Filtrado(d, tipo_filtro, data_filtro) ==
    LET labelled == [i \in 1..Len(d) |-> [label |-> i - 1, row |-> d[i]]]
        Passes(x) ==
            /\ tipo_filtro /= {} => x.row.Tipo \in tipo_filtro
            /\ data_filtro /= {} => x.row.Data \in data_filtro
    IN SelectSeq(labelled, Passes)

\* df_filtrado.reset_index(): a fresh 0..n-1 index (the row's .name), the
\* label in df kept in the column "index"
ResetIndex(f) ==
    [j \in 1..Len(f) |-> [name |-> j - 1, index |-> f[j].label, row |-> f[j].row]]

\* original_index = df_filtrado_com_indice.iloc[row_to_delete].name
OriginalIndex(com_indice, row_to_delete) == com_indice[row_to_delete + 1].name

Init ==
    /\ pc = "tab1"
    /\ trigger = "view"
    /\ sheet = <<>>
    /\ cache = [has |-> FALSE, df |-> <<>>]
    /\ df = <<>>
    /\ form = NoForm
    /\ errors = <<>>
    /\ outcome = "none"
    /\ before = <<>>
    /\ target = -1
    /\ val = StrObj(<<>>)
    /\ ret = Zero
    /\ ret2 = Zero

\* a widget interaction starts the next run of the script
Interact ==
    /\ pc = "idle"
    /\ \E t \in {"view", "submit", "delete"} :
           /\ t = "delete" => df /= <<>>
           /\ trigger' = t
    /\ pc' = "tab1"
    /\ form' = NoForm
    /\ errors' = <<>>
    /\ outcome' = "none"
    /\ before' = sheet
    /\ target' = -1
    /\ UNCHANGED <<sheet, cache, df>>
    /\ UNCHANGED parseVars

\* the "if submitted:" block on the widget values (data, tipo, valor);
\* ok tells whether sheet.append_row returns or raises
SubmitBlock(data, tipo, valor, ok) ==
    /\ form' = [data |-> data, tipo |-> tipo, valor |-> valor]
    /\ errors' = validate_inputs(data, tipo, valor)
    /\ before' = sheet
    /\ IF validate_inputs(data, tipo, valor) /= <<>>
       THEN /\ outcome' = "rejected"
            /\ UNCHANGED <<sheet, cache>>
       ELSE IF ok
       THEN /\ Len(sheet) < MaxRows
            /\ sheet' = Append(sheet, AppendedRow(data, tipo, valor))
            /\ cache' = [has |-> FALSE, df |-> <<>>]
            /\ outcome' = "appended"
       ELSE /\ outcome' = "append_failed"
            /\ UNCHANGED <<sheet, cache>>

\* tab1: the form
Tab1 ==
    /\ pc = "tab1"
    /\ \/ /\ trigger = "submit"
          /\ \E data \in FormDates, tipo \in FormTipos, valor \in FormValores,
                ok \in BOOLEAN : SubmitBlock(data, tipo, valor, ok)
       \/ /\ trigger /= "submit"
          /\ UNCHANGED <<sheet, cache, form, errors, outcome, before>>
    /\ pc' = "tab2"
    /\ UNCHANGED <<trigger, df, target>>
    /\ UNCHANGED parseVars

\* df = load_data() under @st.cache_data: the cached table if there is one,
\* else the body's result, which is cached whatever it is
LoadData ==
    IF cache.has
    THEN /\ df' = cache.df
         /\ UNCHANGED cache
    ELSE \E ok \in BOOLEAN :
             /\ df' = LoadDataBody(sheet, ok)
             /\ cache' = [has |-> TRUE, df |-> LoadDataBody(sheet, ok)]

\* tab2: df = load_data()
Tab2Load ==
    /\ pc = "tab2"
    /\ LoadData
    /\ pc' = "tab2_body"
    /\ UNCHANGED <<sheet, trigger, form, errors, outcome, before, target>>
    /\ UNCHANGED parseVars

\* delete_row(row_index); ok tells whether sheet.delete_rows returns or raises
delete_row(row_index, ok) ==
    IF ok
    THEN /\ sheet' = DeleteRows(sheet, row_index + 2)
         /\ cache' = [has |-> FALSE, df |-> <<>>]
         /\ outcome' = "deleted"
    ELSE /\ outcome' = "delete_failed"
         /\ UNCHANGED <<sheet, cache>>

\* tab2: the filters, the list and the delete button
Tab2Body ==
    /\ pc = "tab2_body"
    /\ \/ /\ trigger = "delete" /\ df /= <<>>
          /\ \E tipo_filtro \in SUBSET Tipos(df), data_filtro \in SUBSET Datas(df) :
                LET com_indice == ResetIndex(Filtrado(df, tipo_filtro, data_filtro))
                IN /\ Len(com_indice) > 0
                   /\ \E row_to_delete \in 0..(Len(com_indice) - 1), ok \in BOOLEAN :
                         /\ target' = com_indice[row_to_delete + 1].index
                         /\ before' = sheet
                         /\ delete_row(OriginalIndex(com_indice, row_to_delete), ok)
       \/ /\ trigger /= "delete" \/ df = <<>>
          /\ UNCHANGED <<sheet, cache, outcome, before, target>>
    /\ pc' = "tab3"
    /\ UNCHANGED <<trigger, df, form, errors>>
    /\ UNCHANGED parseVars

\* tab3: df = load_data() for the charts; the run ends
Tab3Load ==
    /\ pc = "tab3"
    /\ LoadData
    /\ pc' = "idle"
    /\ UNCHANGED <<sheet, trigger, form, errors, outcome, before, target>>
    /\ UNCHANGED parseVars

\* ttl=300: the cached table expires
CacheExpire ==
    /\ cache.has
    /\ cache' = [has |-> FALSE, df |-> <<>>]
    /\ UNCHANGED <<pc, sheet, trigger, df, form, errors, outcome, before, target>>
    /\ UNCHANGED parseVars

Next == Interact \/ Tab1 \/ Tab2Load \/ Tab2Body \/ Tab3Load \/ CacheExpire

Spec == Init /\ [][Next]_vars

-----------------------------------------------------------------------------
(* SpecEntry: one submission of any typed values into an empty sheet, then *)
(* the table read back                                                     *)

EntryChars == {"0", "5", ".", ",", "-", " ", "n", "a", "i", "f"}
EntryTipoChars == {" ", "a"}

InitEntry ==
    /\ pc = "tab1"
    /\ trigger = "submit"
    /\ form \in [data : FormDates,
                 tipo : TextsUpTo(EntryTipoChars, MaxTipoLen),
                 valor : TextsUpTo(EntryChars, MaxValorLen)]
    /\ sheet = <<>>
    /\ cache = [has |-> FALSE, df |-> <<>>]
    /\ df = <<>>
    /\ errors = <<>>
    /\ outcome = "none"
    /\ before = <<>>
    /\ target = -1
    /\ val = StrObj(<<>>)
    /\ ret = Zero
    /\ ret2 = Zero

\* tab1 on the typed values
EntrySubmit ==
    /\ pc = "tab1"
    /\ \E ok \in BOOLEAN : SubmitBlock(form.data, form.tipo, form.valor, ok)
    /\ pc' = "tab2"
    /\ UNCHANGED <<trigger, df, target>>
    /\ UNCHANGED parseVars

NextEntry == EntrySubmit \/ Tab2Load

SpecEntry == InitEntry /\ [][NextEntry]_vars

-----------------------------------------------------------------------------
(* Claims about a submission, checked under SpecEntry *)

\* the number the validator parsed from the typed text
TypedNumber(valor) == PyFloat(Replace(valor, ",", <<".">>))

IsPositiveNumber(v) == v.k = "fin" /\ v.m > 0

\* v > 0 as the reals extended by infinity order it; nan is not
GreaterThanZero(v) == IsPositiveNumber(v) \/ v = PosInf

\* C1: for every amount text the validator accepts, the amount string the
\* submit path appended, read back by load_data through parse_value, is the
\* number the validator parsed from the typed text, whether the decimal
\* separator typed was a comma or a period.
C1_StorageRoundTrip ==
    (pc = "tab2_body" /\ outcome = "appended" /\ Len(df) = 1) =>
        df[1].Valor = TypedNumber(form.valor)

\* C2: whenever validate_inputs returns an empty list, the amount text
\* denotes a finite number strictly greater than 0.
C2_AcceptedAmountPositive ==
    (pc /= "tab1" /\ errors = <<>>) => IsPositiveNumber(TypedNumber(form.valor))

\* the messages of the violated rules, in the order of the rules
ViolatedRules(f) ==
    LET isLater == \/ f.data.y > Today.y
                   \/ f.data.y = Today.y /\ f.data.m > Today.m
                   \/ f.data.y = Today.y /\ f.data.m = Today.m /\ f.data.d > Today.d
        isBlank == \A i \in 1..Len(f.tipo) : f.tipo[i] \in Whitespace
        n == TypedNumber(f.valor)
    IN (IF isLater THEN <<FutureDate>> ELSE <<>>)
       \o (IF isBlank THEN <<EmptyTipo>> ELSE <<>>)
       \o (IF n = ValueError THEN <<NotNumber>>
           ELSE IF ~GreaterThanZero(n) THEN <<NotPositive>>
           ELSE <<>>)

\* C3: validate_inputs returns exactly the messages of the violated rules,
\* each once, in the order future-date, empty-category, amount; the list is
\* empty exactly when the date is not after today, the category is not
\* blank and the amount parses to a positive number.
C3_ExactlyTheViolatedRules ==
    pc /= "tab1" => errors = ViolatedRules(form)

-----------------------------------------------------------------------------
(* Claims about the running script, checked under Spec *)

Submitted == outcome \in {"rejected", "appended", "append_failed"}

\* the sheet is `rows` followed by exactly one row made of the form's values
OneRowAppended(rows, f) ==
    /\ Len(sheet) = Len(rows) + 1
    /\ SubSeq(sheet, 1, Len(rows)) = rows
    /\ ToDatetime(sheet[Len(sheet)].Data) = f.data
    /\ sheet[Len(sheet)].Tipo = RStrip(LStrip(f.tipo))
    /\ sheet[Len(sheet)].Valor = Replace(Replace(f.valor, ".", <<>>), ",", <<".">>)

\* C4 as claimed: a submission with a non-empty error list leaves the
\* spreadsheet unchanged, and one with an empty list appends exactly one
\* row (ISO date, trimmed category, amount string) after the existing rows.
C4_NoPartialAcceptance ==
    Submitted =>
        /\ errors /= <<>> => sheet = before
        /\ errors = <<>> => OneRowAppended(before, form)

\* C4 amended: a submission with a non-empty error list leaves the
\* spreadsheet unchanged; one with an empty list appends exactly one row
\* after the existing rows when append_row returns, and leaves the
\* spreadsheet unchanged when append_row raises.
C4_NoPartialAcceptanceUnlessRaise ==
    Submitted =>
        /\ errors /= <<>> => (outcome = "rejected" /\ sheet = before)
        /\ errors = <<>> =>
               \/ outcome = "appended" /\ OneRowAppended(before, form)
               \/ outcome = "append_failed" /\ sheet = before

\* a valid submission with an untrimmed category, appended after a row
C4_Witness ==
    /\ outcome = "appended"
    /\ Len(before) >= 1
    /\ form.tipo /= Strip(form.tipo)
    /\ Len(sheet) = Len(before) + 1

\* C9: a successful delete removes from the spreadsheet exactly the record
\* shown in the selected row of the filtered list (the one at its position
\* in the unfiltered table) and leaves the others and their order as they
\* were.
C9_DeleteTargetsSelected ==
    outcome = "deleted" =>
        /\ Len(sheet) = Len(before) - 1
        /\ \A i \in 1..Len(sheet) :
               sheet[i] = IF i <= target THEN before[i] ELSE before[i + 1]

\* C10: every table load_data returns has one row per data row of the
\* spreadsheet at that moment, in the same order.
C10_LoadedTableMatchesSheet ==
    pc \in {"tab2_body", "idle"} =>
        /\ Len(df) = Len(sheet)
        /\ \A i \in 1..Len(df) :
               /\ df[i].Tipo = sheet[i].Tipo
               /\ df[i].Data = StrftimeBR(ToDatetime(sheet[i].Data))
               /\ df[i].Valor = parse_value(Numericise(sheet[i].Valor))

-----------------------------------------------------------------------------
(* Claims about parse_value, checked under SpecParse *)

NonNegative(v) == (v.k = "fin" /\ v.m >= 0) \/ v = PosInf

LastIndexOf(s, c) ==
    CHOOSE i \in 1..Len(s) : s[i] = c /\ \A j \in (i + 1)..Len(s) : s[j] /= c

\* the separator procedure as the specification words it
SeparatorProcedure(s) ==
    LET cleaned == SelectSeq(s, LAMBDA c : c \in Digit \/ c = "." \/ c = ",")
        lastComma(t) == LastIndexOf(t, ",")
        commaToPoint(t) == [i \in 1..Len(t) |->
                               IF i = lastComma(t) THEN "." ELSE t[i]]
        noPeriods == SelectSeq(cleaned, LAMBDA c : c /= ".")
        noCommas == SelectSeq(cleaned, LAMBDA c : c /= ",")
        text == IF Contains(cleaned, ".") /\ Contains(cleaned, ",")
                THEN commaToPoint(noPeriods)
                ELSE IF Contains(cleaned, ",")
                THEN (IF Len(cleaned) - lastComma(cleaned) = 2
                      THEN commaToPoint(cleaned) ELSE noCommas)
                ELSE cleaned
        parsed == PyFloat(text)
    IN IF parsed = ValueError THEN Zero ELSE parsed

\* C5: for every text input, parse_value returns what the specification's
\* separator procedure returns on that text (both separators: periods
\* removed, last comma the decimal point; commas only: last comma the
\* decimal point when exactly two characters follow it, else commas
\* removed; else as-is; 0.0 when the result does not parse).
C5_MatchesSeparatorProcedure ==
    (pc /= "call" /\ val.ty = "str") => ret = SeparatorProcedure(val.s)

\* a text with both separators whose comma was taken as the decimal point
C5_Witness ==
    /\ pc = "returned" /\ val.ty = "str"
    /\ Contains(val.s, ",") /\ Contains(val.s, ".")
    /\ ret.k = "fin" /\ ret.e > 0

\* C6: parse_value is total: it returns a number for every input value and
\* never raises, and returns 0.0 when the normalised text does not parse.
C6_ParseValueTotal ==
    pc /= "call" =>
        /\ ~IsException(ret)
        /\ (val.ty = "str"
            /\ PyFloat(NormalizeSeparators(ReSub(Strip(val.s)))) = ValueError)
           => ret = Zero

\* C7 as claimed: for every input value, number or text, the amount that
\* parse_value returns is non-negative.
C7_NonNegativeEveryInput ==
    (pc /= "call" /\ ~IsException(ret)) => NonNegative(ret)

\* C7 amended: for every text input parse_value returns a non-negative
\* amount; a numeric input comes back as float(n), whatever its sign.
C7_NonNegativeText ==
    pc /= "call" =>
        /\ val.ty = "str" => (~IsException(ret) /\ NonNegative(ret))
        /\ (val.ty /= "str" /\ ~IsException(ret)) => ret = val.v

\* a text with a minus sign that came back as a positive amount
C7_Witness ==
    /\ pc = "returned" /\ val.ty = "str"
    /\ Contains(val.s, "-")
    /\ ret.k = "fin" /\ ret.m > 0

\* digits with at most one period, no comma, nothing else
IsCanonical(s) ==
    /\ \A i \in 1..Len(s) : s[i] \in Digit \/ s[i] = "."
    /\ \A i, j \in 1..Len(s) : (s[i] = "." /\ s[j] = ".") => i = j
    /\ \E i \in 1..Len(s) : s[i] \in Digit

RECURSIVE Pow10(_)
Pow10(n) == IF n = 0 THEN 1 ELSE 10 * Pow10(n - 1)

RECURSIVE NatOf(_)
\* the natural number a digit string denotes, read from the left
NatOf(ds) == IF ds = <<>> THEN 0
             ELSE DigitVal(Head(ds)) * Pow10(Len(ds) - 1) + NatOf(Tail(ds))

\* the number a canonical text denotes: integer part plus fraction
Denotes(s) ==
    LET p == IF Contains(s, ".") THEN LastIndexOf(s, ".") ELSE Len(s) + 1
        ip == SubSeq(s, 1, p - 1)
        fp == SubSeq(s, p + 1, Len(s))
    IN Fin(NatOf(ip) * Pow10(Len(fp)) + NatOf(fp), Len(fp))

\* C8: for every canonical amount text s, parse_value(s) is the number s
\* denotes, and parse_value of that number is the same number.
C8_CanonicalIdempotent ==
    (val.ty = "str" /\ IsCanonical(val.s)) =>
        /\ pc /= "call" => ret = Denotes(val.s)
        /\ pc = "reapplied" => ret2 = ret

\* a canonical text with a fraction, parsed and parsed again
C8_Witness ==
    /\ pc = "reapplied" /\ val.ty = "str" /\ IsCanonical(val.s)
    /\ Contains(val.s, ".") /\ ret.k = "fin" /\ ret.e > 0 /\ ret.m > 0

=============================================================================
